---- MODULE Spec2Model ----
(***************************************************************************)
(* CounterUp.js: a counter that animates an element's text from zero up    *)
(* to the number found in it whenever the element scrolls into view.       *)
(*                                                                         *)
(* Texts (innerText, prefix, suffix, separator) are sequences of           *)
(* one-character strings.  Numbers are exact rationals [n, d] in lowest    *)
(* terms.  Time is counted in frame intervals.                             *)
(***************************************************************************)
EXTENDS Integers, Sequences, FiniteSets, TLC

\* ------------------------------------------------------------------ bounds

\* Duration of an animation, in frame intervals (the source default is 800 ms).
DefaultDuration == 2

\* Largest number of entries the visibility detector hands over in one callback.
MaxEntries == 2

\* Number of public calls and observer callbacks in a run of LiveSpec and of
\* RaceSpec.
MaxCalls == 3

\* Number of callbacks the scheduler of RaceSpec holds taken but not yet called.
MaxInFlight == 1

\* ------------------------------------------------------------- arithmetic

Abs(x) == IF x < 0 THEN -x ELSE x

Min(a, b) == IF a < b THEN a ELSE b

RECURSIVE Gcd(_, _)
Gcd(a, b) == IF b = 0 THEN a ELSE Gcd(b, a % b)

RECURSIVE Pow(_, _)
Pow(b, e) == IF e = 0 THEN 1 ELSE b * Pow(b, e - 1)

Reduce(n, d, g) == [n |-> n \div g, d |-> d \div g]

\* The rational n/d, d > 0, in lowest terms.
Rat(n, d) == Reduce(n, d, Gcd(Abs(n), d))

RInt(k) == [n |-> k, d |-> 1]

ROne == [n |-> 1, d |-> 1]

RHalf == [n |-> 1, d |-> 2]

RAdd(x, y) == Rat(x.n * y.d + y.n * x.d, x.d * y.d)

RSub(x, y) == Rat(x.n * y.d - y.n * x.d, x.d * y.d)

RMul(x, y) == Rat(x.n * y.n, x.d * y.d)

RLess(x, y) == x.n * y.d < y.n * x.d

\* ------------------------------------------------------------------ texts

DigitChars == <<"0", "1", "2", "3", "4", "5", "6", "7", "8", "9">>

Digits == {"0", "1", "2", "3", "4", "5", "6", "7", "8", "9"}

DigitVal(c) == (CHOOSE i \in 1..10 : DigitChars[i] = c) - 1

\* String.prototype.startsWith
StartsWith(s, p) == Len(p) <= Len(s) /\ SubSeq(s, 1, Len(p)) = p

\* String.prototype.endsWith
EndsWith(s, p) == Len(p) <= Len(s) /\ SubSeq(s, Len(s) - Len(p) + 1, Len(s)) = p

\* String.prototype.includes
Includes(s, p) == \E i \in 1..(Len(s) - Len(p) + 1) : SubSeq(s, i, i + Len(p) - 1) = p

\* String.prototype.trim, for blanks
RECURSIVE Trim(_)
Trim(s) ==
    IF s = <<>> THEN s
    ELSE IF Head(s) = " " THEN Trim(Tail(s))
    ELSE IF s[Len(s)] = " " THEN Trim(SubSeq(s, 1, Len(s) - 1))
    ELSE s

\* value.replace(new RegExp(sep, 'g'), ''): the separator is read as a
\* regular expression, so "." stands for any character; the other separators
\* of the model stand for themselves.
RECURSIVE RemoveAll(_, _)
RemoveAll(s, sep) ==
    IF s = <<>> \/ sep = <<>> THEN s
    ELSE IF sep = <<".">> THEN <<>>
    ELSE IF StartsWith(s, sep) THEN RemoveAll(SubSeq(s, Len(sep) + 1, Len(s)), sep)
    ELSE <<Head(s)>> \o RemoveAll(Tail(s), sep)

\* Number of leading digits of s from position i on.
RECURSIVE DigitRun(_, _)
DigitRun(s, i) ==
    IF i <= Len(s) /\ s[i] \in Digits THEN 1 + DigitRun(s, i + 1) ELSE 0

\* The decimal digits of a natural number.
RECURSIVE NatText(_)
NatText(k) ==
    IF k < 10 THEN <<DigitChars[k + 1]>>
    ELSE NatText(k \div 10) \o <<DigitChars[(k % 10) + 1]>>

\* s padded on the left with zeros to at least k characters.
RECURSIVE PadZero(_, _)
PadZero(s, k) == IF Len(s) >= k THEN s ELSE PadZero(<<"0">> \o s, k)

\* ------------------------------------------------------------ ValueParser

\* settings.decimals: null, the decimals are those of the text.
AutoDecimals == -1

\* /^[-+]?[0-9]*\.?[0-9]+([eE][-+]?[0-9]+)?$/ read one character at a time.
\* at: what has been read (sign: the sign; int: integer digits; dot: the point;
\* frac: fraction digits; e: the exponent letter; esign: its sign; exp: its
\* digits; fail: no match).  mant: the digits read as one number; n2: the
\* fraction digits; e: the exponent's digits.
ScanStart ==
    [at |-> "start", neg |-> FALSE, mant |-> 0, n2 |-> 0, eNeg |-> FALSE, e |-> 0]

ScanChar(a, ch) ==
    CASE a.at = "start" /\ ch \in {"-", "+"} ->
            [a EXCEPT !.at = "sign", !.neg = (ch = "-")]
      [] a.at \in {"start", "sign", "int"} /\ ch \in Digits ->
            [a EXCEPT !.at = "int", !.mant = @ * 10 + DigitVal(ch)]
      [] a.at \in {"start", "sign", "int"} /\ ch = "." ->
            [a EXCEPT !.at = "dot"]
      [] a.at \in {"dot", "frac"} /\ ch \in Digits ->
            [a EXCEPT !.at = "frac", !.mant = @ * 10 + DigitVal(ch), !.n2 = @ + 1]
      [] a.at \in {"int", "frac"} /\ ch \in {"e", "E"} ->
            [a EXCEPT !.at = "e"]
      [] a.at = "e" /\ ch \in {"-", "+"} ->
            [a EXCEPT !.at = "esign", !.eNeg = (ch = "-")]
      [] a.at \in {"e", "esign", "exp"} /\ ch \in Digits ->
            [a EXCEPT !.at = "exp", !.e = @ * 10 + DigitVal(ch)]
      [] OTHER ->
            [a EXCEPT !.at = "fail"]

RECURSIVE ScanFrom(_, _, _)
ScanFrom(s, i, a) ==
    IF i > Len(s) THEN a ELSE ScanFrom(s, i + 1, ScanChar(a, s[i]))

Scan(s) == ScanFrom(s, 1, ScanStart)

\* The regular expression's test.
Matches(c) == c.at \in {"int", "frac", "exp"}

\* parseFloat of a text that passed the test, as an exact rational.
FloatOf(c, m) ==
    IF c.eNeg THEN Rat(m, Pow(10, c.n2) * Pow(10, c.e))
              ELSE Rat(m * Pow(10, c.e), Pow(10, c.n2))

ParseFloat(c) == FloatOf(c, IF c.neg THEN -c.mant ELSE c.mant)

\* parseValue's null.
NoParse == [ok |-> FALSE, number |-> RInt(0), decimals |-> 0, hasComma |-> FALSE]

StripPrefix(s, p) ==
    IF p # <<>> /\ StartsWith(s, p) THEN SubSeq(s, Len(p) + 1, Len(s)) ELSE s

StripSuffix(s, p) ==
    IF p # <<>> /\ EndsWith(s, p) THEN SubSeq(s, 1, Len(s) - Len(p)) ELSE s

\* parseValue from the regular expression's test on.
parseClean(c, hasComma, st) ==
    IF Matches(c)
    THEN [ok       |-> TRUE,
          number   |-> ParseFloat(c),
          decimals |-> IF st.decimals # AutoDecimals THEN st.decimals ELSE c.n2,
          hasComma |-> hasComma]
    ELSE NoParse

parseValue(value, st) ==
    IF value = <<>> THEN NoParse
    ELSE parseClean(
            Scan(RemoveAll(StripSuffix(StripPrefix(value, st.prefix), st.suffix),
                           st.separator)),
            Includes(value, st.separator), st)

\* --------------------------------------------------------- NumberFormatter

\* a/d rounded to the nearest integer, the larger one of two equally near.
RoundHalfUp(a, d) == (2 * a + d) \div (2 * d)

FixedText(neg, digits, f) ==
    (IF neg THEN <<"-">> ELSE <<>>)
    \o (IF f = 0 THEN digits
        ELSE SubSeq(digits, 1, Len(digits) - f) \o <<".">>
             \o SubSeq(digits, Len(digits) - f + 1, Len(digits)))

\* Number.prototype.toFixed: the nearest multiple of 10^-f, with the sign of x.
ToFixed(x, f) ==
    FixedText(x.n < 0, PadZero(NatText(RoundHalfUp(Abs(x.n) * Pow(10, f), x.d)), f + 1), f)

\* parts[0].replace(/\B(?=(\d{3})+(?!\d))/g, sep): sep goes between two digits
\* that have a multiple of three digits to their right.
RECURSIVE Group(_, _, _)
Group(s, i, sep) ==
    IF i > Len(s) THEN <<>>
    ELSE (IF i > 1 /\ s[i - 1] \in Digits /\ s[i] \in Digits
             /\ DigitRun(s, i) % 3 = 0
          THEN sep ELSE <<>>) \o <<s[i]>> \o Group(s, i + 1, sep)

\* Place of the first "." of s, or Len(s) + 1.
RECURSIVE DotAt(_, _)
DotAt(s, i) == IF i > Len(s) \/ s[i] = "." THEN i ELSE DotAt(s, i + 1)

\* split('.'), the replace on parts[0], join('.')
GroupParts(fixed, p, sep) ==
    Group(SubSeq(fixed, 1, p - 1), 1, sep) \o SubSeq(fixed, p, Len(fixed))

\* formatNumber without the grouping.
formatNumber_noGroup(number, decimals, hasComma, st) ==
    st.prefix \o ToFixed(number, decimals) \o st.suffix

formatNumber(number, decimals, hasComma, st) ==
    st.prefix
    \o (IF hasComma
        THEN GroupParts(ToFixed(number, decimals),
                        DotAt(ToFixed(number, decimals), 1), st.separator)
        ELSE ToFixed(number, decimals))
    \o st.suffix

\* ----------------------------------------------------------- EasingLibrary

\* 2^(-r) for a rational r >= 0; between two integers the power is
\* interpolated linearly.
Pow2Neg(r) == Rat(2 * r.d - (r.n % r.d), 2 * r.d * Pow(2, r.n \div r.d))

Cube(u) == RMul(u, RMul(u, u))

easeLinear(t) == t

easeInQuad(t) == RMul(t, t)

easeOutQuad(t) == RMul(t, RSub(RInt(2), t))

easeInOutQuad(t) ==
    IF RLess(t, RHalf) THEN RMul(RInt(2), RMul(t, t))
    ELSE RAdd(RInt(-1), RMul(RSub(RInt(4), RMul(RInt(2), t)), t))

easeInCubic(t) == Cube(t)

easeOutCubic(t) == RAdd(Cube(RSub(t, ROne)), ROne)

easeInOutCubic(t) ==
    IF RLess(t, RHalf) THEN RMul(RInt(4), Cube(t))
    ELSE RAdd(RMul(RSub(t, ROne), RMul(RSub(RAdd(t, t), RInt(2)),
                                       RSub(RAdd(t, t), RInt(2)))), ROne)

easeOutExpo(t) ==
    IF t = ROne THEN ROne ELSE RSub(ROne, Pow2Neg(RMul(RInt(10), t)))

EasingNames ==
    {"easeLinear", "easeInQuad", "easeOutQuad", "easeInOutQuad",
     "easeInCubic", "easeOutCubic", "easeInOutCubic", "easeOutExpo"}

\* this.easingFunctions[name] || this.easingFunctions.easeOutExpo, applied
\* A lookup that ignores the name.
easingFn_alwaysExpo(name, t) == easeOutExpo(t)

easingFn(name, t) ==
    CASE name = "easeLinear"     -> easeLinear(t)
      [] name = "easeInQuad"     -> easeInQuad(t)
      [] name = "easeOutQuad"    -> easeOutQuad(t)
      [] name = "easeInOutQuad"  -> easeInOutQuad(t)
      [] name = "easeInCubic"    -> easeInCubic(t)
      [] name = "easeOutCubic"   -> easeOutCubic(t)
      [] name = "easeInOutCubic" -> easeInOutCubic(t)
      [] OTHER                   -> easeOutExpo(t)

\* ------------------------------------------------------------------ state

VARIABLES
    settings,        \* this.settings
    elements,        \* this.elements
    observers,       \* this.observers, each observer by its identity
    animations,      \* this.animations: element -> animation id
    elementState,    \* this.elementState: element -> visible?
    innerText,       \* element.innerText
    dataset,         \* element.dataset.counterup*
    observing,       \* the connected IntersectionObservers: identity, target,
                     \* and the isIntersecting last reported ("none": not
                     \* yet, "unseen": false, and never true so far)
    frameCallbacks,  \* the requestAnimationFrame callbacks not yet run
    delivering,      \* callbacks the scheduler has taken for the running frame
    page,            \* the elements' texts when the instance was constructed
    last,            \* the last handler that ran, and its input
    calls            \* calls and observer callbacks left (LiveSpec, RaceSpec)

vars == <<settings, elements, observers, animations, elementState, innerText,
          dataset, observing, frameCallbacks, delivering, page, last, calls>>

Elems == {1, 2}

\* this.animations.has(element) is false
NoAnim == 0

\* let startTime = null
NullTime == -1

\* ------------------------------------------------------------ constructor

defaults ==
    [duration  |-> DefaultDuration,
     easing    |-> "easeOutExpo",
     offset    |-> "0%",
     once      |-> FALSE,
     decimals  |-> AutoDecimals,
     separator |-> <<",">>,
     prefix    |-> <<>>,
     suffix    |-> <<>>]

\* Object.assign({}, a, b), for the options the program reads
Merge(a, b) == [k \in DOMAIN a |-> IF k \in DOMAIN b THEN b[k] ELSE a[k]]

\* No data attribute set on the element.
NoData ==
    [set |-> FALSE, value |-> <<>>, number |-> RInt(0), decimals |-> 0,
     hasCommas |-> FALSE]

\* The program's fields and the page it acts on, as one value that the
\* methods below take and return.
Cur ==
    [settings |-> settings, elements |-> elements, observers |-> observers,
     animations |-> animations, elementState |-> elementState,
     innerText |-> innerText, dataset |-> dataset, observing |-> observing,
     frameCallbacks |-> frameCallbacks, delivering |-> delivering]

Is(s) ==
    /\ settings = s.settings
    /\ elements = s.elements
    /\ observers = s.observers
    /\ animations = s.animations
    /\ elementState = s.elementState
    /\ innerText = s.innerText
    /\ dataset = s.dataset
    /\ observing = s.observing
    /\ frameCallbacks = s.frameCallbacks
    /\ delivering = s.delivering

Becomes(s) ==
    /\ settings' = s.settings
    /\ elements' = s.elements
    /\ observers' = s.observers
    /\ animations' = s.animations
    /\ elementState' = s.elementState
    /\ innerText' = s.innerText
    /\ dataset' = s.dataset
    /\ observing' = s.observing
    /\ frameCallbacks' = s.frameCallbacks
    /\ delivering' = s.delivering

\* ------------------------------------------------------ AnimationController

\* The smallest handle from k on that is not in use.
FirstFree(used, k) == CHOOSE i \in k..(k + Cardinality(used)) : i \notin used

\* A handle for a callback of element: one that no callback the scheduler
\* holds has.  Handles only tell callbacks apart; the search starts at the
\* element's number, so that equal situations get equal handles.
NewAnimId(s, element) ==
    FirstFree({r.id : r \in s.frameCallbacks \cup s.delivering}, element)

\* window.cancelAnimationFrame: a callback not yet taken for a frame is dropped.
\* cancelAnimationFrame that revokes every request.
cancelAnimationFrame_all(s, animId) == [s EXCEPT !.frameCallbacks = {}]

cancelAnimationFrame(s, animId) ==
    [s EXCEPT !.frameCallbacks = {r \in @ : r.id # animId}]

\* cancelAnimation that drops the map entry and leaves the request standing.
cancelAnimation_keepRequest(s, element) ==
    [s EXCEPT !.animations[element] = NoAnim]

cancelAnimation(s, element) ==
    IF s.animations[element] # NoAnim
    THEN [cancelAnimationFrame(s, s.animations[element])
            EXCEPT !.animations[element] = NoAnim]
    ELSE s

\* const animId = requestAnimationFrame(step); this.animations.set(element, animId)
\* closure: the variables step closes over; elapsed is timestamp - startTime at
\* the clock's last reading.
requestAnimationFrame(s, closure) ==
    [s EXCEPT !.frameCallbacks = @ \cup {closure},
              !.animations[closure.element] = closure.id]

\* animate from the reading of the dataset on.
\* animate that reads the data and requests no frame.
animateFrom_noRequest(s, element, d) == s

animateFrom(s, element, d) ==
    IF ~d.set THEN s
    ELSE requestAnimationFrame(s,
            [id |-> NewAnimId(s, element), element |-> element,
             targetValue |-> d.number, decimals |-> d.decimals,
             hasComma |-> d.hasCommas,
             duration |-> s.settings.duration,
             easing |-> s.settings.easing,
             elapsed |-> NullTime])

animate(s, element) ==
    animateFrom(cancelAnimation(s, element), element, s.dataset[element])

\* Math.min(1, (timestamp - startTime) / duration)
Progress(elapsed, duration) ==
    IF elapsed >= duration THEN ROne ELSE Rat(elapsed, duration)

\* element.innerText = this.formatNumber(value, decimals, hasComma)
render(s, c, value) ==
    [s EXCEPT !.innerText[c.element] =
        formatNumber(value, c.decimals, c.hasComma, s.settings)]

\* step after the update of the element.
\* The end of step that renders the target and keeps the map entry.
stepEnd_keepEntry(s, c, elapsed, progress) ==
    IF RLess(progress, ROne)
    THEN requestAnimationFrame(s, [c EXCEPT !.id = NewAnimId(s, c.element),
                                            !.elapsed = elapsed])
    ELSE render(s, c, c.targetValue)

stepEnd(s, c, elapsed, progress) ==
    IF RLess(progress, ROne)
    THEN requestAnimationFrame(s, [c EXCEPT !.id = NewAnimId(s, c.element), !.elapsed = elapsed])
    ELSE [render(s, c, c.targetValue) EXCEPT !.animations[c.element] = NoAnim]

\* step from the computation of progress on.
stepAt(s, c, elapsed, progress) ==
    stepEnd(render(s, c, RMul(easingFn(c.easing, progress), c.targetValue)),
            c, elapsed, progress)

\* step(timestamp) of the closure c, which the scheduler has taken off its list.
\* The start of step with the start time taken one interval before the first
\* frame.
step_startedEarlier(s, c) ==
    IF c.elapsed = NullTime
    THEN stepAt(s, c, 1, Progress(1, c.duration))
    ELSE stepAt(s, c, c.elapsed, Progress(c.elapsed, c.duration))

step(s, c) ==
    IF c.elapsed = NullTime
    THEN stepAt(s, c, 0, Progress(0, c.duration))
    ELSE stepAt(s, c, c.elapsed, Progress(c.elapsed, c.duration))

\* ------------------------------------------------------------ Orchestrator

NewObserverId(s) ==
    FirstFree({o.id : o \in s.observing}
              \cup {s.observers[i] : i \in DOMAIN s.observers}, 1)

\* new IntersectionObserver(...); observer.observe(element); this.observers.push
observe(s, observer) ==
    [s EXCEPT !.observing = @ \cup {observer},
              !.observers = Append(@, observer.id)]

\* The body of init's forEach from the parsing on.
initParsed(s, element, text, parsedData) ==
    IF ~parsedData.ok THEN s
    ELSE observe(
            [s EXCEPT
                !.dataset[element] =
                    [set |-> TRUE, value |-> text, number |-> parsedData.number,
                     decimals |-> parsedData.decimals,
                     hasCommas |-> parsedData.hasComma],
                !.elementState[element] = "false"],
            [id |-> NewObserverId(s), target |-> element, previous |-> "none"])

initText(s, element, text) ==
    IF text = <<>> THEN s
    ELSE initParsed(s, element, text, parseValue(text, s.settings))

\* The body of init's forEach for one element.
initElement(s, element) == initText(s, element, Trim(s.innerText[element]))

\* init whose loop ends at the first element it skips.
RECURSIVE initFrom_stopAtBad(_, _)
initFrom_stopAtBad(s, i) ==
    IF i > Len(s.elements) THEN s
    ELSE IF initElement(s, s.elements[i]) = s THEN s
    ELSE initFrom_stopAtBad(initElement(s, s.elements[i]), i + 1)

RECURSIVE initFrom(_, _)
initFrom(s, i) ==
    IF i > Len(s.elements) THEN s
    ELSE initFrom(initElement(s, s.elements[i]), i + 1)

init(s) == initFrom(s, 1)

\* if (this.settings.once) { observer.disconnect(); this.observers = ... }
\* The once branch that disconnects the observer and leaves it in the list.
disconnectIfOnce_keepListed(s, observer) ==
    IF s.settings.once
    THEN [s EXCEPT !.observing = {o \in @ : o.id # observer.id}]
    ELSE s

disconnectIfOnce(s, observer) ==
    IF s.settings.once
    THEN [s EXCEPT !.observing = {o \in @ : o.id # observer.id},
                   !.observers = SelectSeq(@, LAMBDA obs : obs # observer.id)]
    ELSE s

\* if (!this.settings.once) { element.innerText = '0' }
\* The exit branch without the write of '0'.
zeroUnlessOnce_noZero(s, element) == s

zeroUnlessOnce(s, element) ==
    IF ~s.settings.once THEN [s EXCEPT !.innerText[element] = <<"0">>] ELSE s

\* The observer callback's body for one entry, from the update of
\* this.elementState on.
\* The branches of the callback without the test of wasVisible.
handleSeen_anyExit(s, observer, wasVisible, currentlyVisible) ==
    IF currentlyVisible
    THEN disconnectIfOnce(animate(s, observer.target), observer)
    ELSE zeroUnlessOnce(cancelAnimation(s, observer.target), observer.target)

handleSeen(s, observer, wasVisible, currentlyVisible) ==
    IF currentlyVisible
    THEN disconnectIfOnce(animate(s, observer.target), observer)
    ELSE IF wasVisible = "true"
    THEN zeroUnlessOnce(cancelAnimation(s, observer.target), observer.target)
    ELSE s

\* The observer callback's body for one entry.
handleEntry(s, observer, currentlyVisible) ==
    handleSeen([s EXCEPT !.elementState[observer.target] =
                   IF currentlyVisible THEN "true" ELSE "false"],
               observer, s.elementState[observer.target], currentlyVisible)

RECURSIVE handleEntries(_, _, _)
handleEntries(s, observer, entries) ==
    IF entries = <<>> THEN s
    ELSE handleEntries(handleEntry(s, observer, Head(entries)), observer, Tail(entries))

\* reset that leaves the observers connected.
reset_noDisconnect(s) ==
    [s EXCEPT
        !.frameCallbacks = {r \in @ : r.id \notin {s.animations[e] : e \in Elems}},
        !.animations = [e \in Elems |-> NoAnim],
        !.elementState = [e \in Elems |-> "undefined"],
        !.observers = <<>>,
        !.innerText = [e \in Elems |->
                          IF e \in {s.elements[i] : i \in DOMAIN s.elements}
                             /\ s.dataset[e].set
                          THEN s.dataset[e].value ELSE @[e]]]

reset(s) ==
    [s EXCEPT
        !.frameCallbacks = {r \in @ : r.id \notin {s.animations[e] : e \in Elems}},
        !.animations = [e \in Elems |-> NoAnim],
        !.elementState = [e \in Elems |-> "undefined"],
        !.observing = {o \in @ : o.id \notin {s.observers[i] : i \in DOMAIN s.observers}},
        !.observers = <<>>,
        !.innerText = [e \in Elems |->
                          IF e \in {s.elements[i] : i \in DOMAIN s.elements}
                             /\ s.dataset[e].set
                          THEN s.dataset[e].value ELSE @[e]]]

updateOptions(s, options) ==
    init(reset([s EXCEPT !.settings = Merge(s.settings, options)]))

restart(s) == init(reset(s))

RECURSIVE replayFrom(_, _)
replayFrom(s, i) ==
    IF i > Len(s.elements) THEN s
    ELSE replayFrom(animate([s EXCEPT !.innerText[s.elements[i]] = <<"0">>],
                            s.elements[i]), i + 1)

replay(s) == replayFrom(s, 1)

\* destroy that empties the list and skips reset.
destroy_noReset(s) == [s EXCEPT !.elements = <<>>]

destroy(s) == [reset(s) EXCEPT !.elements = <<>>]

\* ------------------------------------------------------------ the page

T1500 == <<"1", ",", "5", "0", "0">>

T2500 == <<"2", "5", "0", "0", ".", "5", "0">>

T5000 == <<"$", "5", ",", "0", "0", "0", "+">>

TBlank == <<" ">>

\* The texts of the two elements at construction.
Batches == {<<T5000, T1500>>, <<T2500, TBlank>>}

\* The options given to the constructor: none, or those of the README.
InitOptions == {<<>>, [once |-> TRUE, prefix |-> <<"$">>, suffix |-> <<"+">>]}

\* The options given to updateOptions.
Partials ==
    {[once |-> TRUE], [once |-> FALSE],
     [prefix |-> <<"$">>, suffix |-> <<"+">>], [prefix |-> <<>>, suffix |-> <<>>],
     [decimals |-> 1]}

constructor(texts, options) ==
    init([settings |-> Merge(defaults, options),
          elements |-> <<1, 2>>,
          observers |-> <<>>,
          animations |-> [e \in Elems |-> NoAnim],
          elementState |-> [e \in Elems |-> "undefined"],
          innerText |-> [e \in Elems |-> texts[e]],
          dataset |-> [e \in Elems |-> NoData],
          observing |-> {},
          frameCallbacks |-> {},
          delivering |-> {}])

Init ==
    /\ \E texts \in Batches, options \in InitOptions :
          /\ Is(constructor(texts, options))
          /\ page = texts
    /\ last = [op |-> "constructor", el |-> 0, arg |-> <<>>, exit |-> FALSE]
    /\ calls = MaxCalls

\* ------------------------------------------------------------ the browser

\* The entries one callback can bring: an observer with threshold 0 reports
\* its target once after observe() and then at every change of
\* isIntersecting, so the entries alternate.
EntryBatches(previous) ==
    {q \in UNION {[1..n -> BOOLEAN] : n \in 1..MaxEntries} :
        /\ previous # "none" => q[1] = (previous # "true")
        /\ \A i \in 1..(Len(q) - 1) : q[i + 1] = ~q[i]}

\* Whether the callback, called with entries for an element whose recorded
\* state is wasVisible, handles an entry that is not visible while the
\* recorded state is visible.
Exits(wasVisible, entries) ==
    \E i \in DOMAIN entries :
        /\ ~entries[i]
        /\ IF i = 1 THEN wasVisible = "true" ELSE entries[i - 1]

\* The observer o once it has reported entries.
Seen(o, entries) ==
    [o EXCEPT !.previous =
        IF entries[Len(entries)] THEN "true"
        ELSE IF @ \in {"none", "unseen"} /\ \A i \in DOMAIN entries : ~entries[i]
        THEN "unseen" ELSE "false"]

\* The state s after the callback of observer o has handled entries.
ReportOn(s, o, entries) ==
    handleEntries([s EXCEPT !.observing = (@ \ {o}) \cup {Seen(o, entries)}],
                  Seen(o, entries), entries)

\* The state s after the scheduler has called the requested callback c.
FrameOn(s, c) == step([s EXCEPT !.frameCallbacks = @ \ {c}], c)

\* The observer's callback is called with entries, whatever they are.
Report(o, entries) ==
    /\ o \in observing
    /\ Becomes(ReportOn(Cur, o, entries))
    /\ last' = [op |-> "notify", el |-> o.target, arg |-> entries,
                exit |-> Exits(elementState[o.target], entries)]
    /\ UNCHANGED page

\* The observer's callback is called with entries a browser's observer can
\* bring.
Notify(o, entries) ==
    /\ entries \in EntryBatches(o.previous)
    /\ Report(o, entries)

\* The scheduler runs a requested callback.
Frame(c) ==
    /\ c \in frameCallbacks
    /\ Becomes(FrameOn(Cur, c))
    /\ last' = [op |-> "step", el |-> c.element,
                arg |-> (c.elapsed # NullTime /\ c.elapsed >= c.duration),
                exit |-> FALSE]
    /\ UNCHANGED page

\* A scheduler that takes a callback for the running frame before calling it:
\* from then on cancelAnimationFrame does not reach it.
Take(c) ==
    /\ c \in frameCallbacks
    /\ Cardinality(delivering) < MaxInFlight
    /\ frameCallbacks' = frameCallbacks \ {c}
    /\ delivering' = delivering \cup {c}
    /\ UNCHANGED <<settings, elements, observers, animations, elementState,
                   innerText, dataset, observing, page, last>>

Deliver(c) ==
    /\ c \in delivering
    /\ Becomes(step([Cur EXCEPT !.delivering = @ \ {c}], c))
    /\ last' = [op |-> "step", el |-> c.element,
                arg |-> (c.elapsed # NullTime /\ c.elapsed >= c.duration),
                exit |-> FALSE]
    /\ UNCHANGED page

\* One frame interval passes: every started session is one interval older
\* (step reads the time only through Math.min(1, elapsed / duration)).
Older(c) ==
    IF c.elapsed = NullTime THEN c
    ELSE [c EXCEPT !.elapsed = Min(@ + 1, c.duration)]

Tick ==
    /\ frameCallbacks' = {Older(c) : c \in frameCallbacks}
    /\ delivering' = {Older(c) : c \in delivering}
    /\ last' = [op |-> "tick", el |-> 0, arg |-> <<>>, exit |-> FALSE]
    /\ UNCHANGED <<settings, elements, observers, animations, elementState,
                   innerText, dataset, observing, page>>

\* ------------------------------------------------------------ public calls

Replay ==
    /\ Becomes(replay(Cur))
    /\ last' = [op |-> "replay", el |-> 0,
                arg |-> {e \in Elems : animations[e] # NoAnim}, exit |-> FALSE]
    /\ UNCHANGED page

Restart ==
    /\ Becomes(restart(Cur))
    /\ last' = [op |-> "restart", el |-> 0, arg |-> <<>>, exit |-> FALSE]
    /\ UNCHANGED page

UpdateOptions(options) ==
    /\ Becomes(updateOptions(Cur, options))
    /\ last' = [op |-> "updateOptions", el |-> 0, arg |-> options, exit |-> FALSE]
    /\ UNCHANGED page

Destroy ==
    /\ Becomes(destroy(Cur))
    /\ last' = [op |-> "destroy", el |-> 0, arg |-> <<>>, exit |-> FALSE]
    /\ UNCHANGED page

Next ==
    \/ UNCHANGED calls /\ \E o \in observing :
          \E entries \in EntryBatches(o.previous) : Notify(o, entries)
    \/ UNCHANGED calls /\ Replay
    \/ UNCHANGED calls /\ Restart
    \/ UNCHANGED calls /\ \E options \in Partials : UpdateOptions(options)
    \/ UNCHANGED calls /\ Destroy
    \/ UNCHANGED calls /\ \E c \in frameCallbacks : Frame(c)
    \/ UNCHANGED calls /\ Tick

Spec == Init /\ [][Next]_vars

\* The same program with finitely many calls and observer callbacks, and a
\* scheduler that runs every requested callback while time passes.
Spend == calls > 0 /\ calls' = calls - 1

LiveNext ==
    \/ Spend /\ \E o \in observing :
          \E entries \in EntryBatches(o.previous) : Notify(o, entries)
    \/ Spend /\ Replay
    \/ Spend /\ Restart
    \/ Spend /\ \E options \in Partials : UpdateOptions(options)
    \/ Spend /\ Destroy
    \/ UNCHANGED calls /\ \E c \in frameCallbacks : Frame(c)
    \/ UNCHANGED calls /\ Tick

\* A frame is requested for element e: the delivery of a frame to e is enabled.
FramePending(e) == \E c \in frameCallbacks : c.element = e

\* The last step delivered a frame to element e.
FrameDelivered(e) == last.op = "step" /\ last.el = e

\* Time advances, and a frame that stays requested is delivered (weak
\* fairness of the delivery to each element, stated on the states: the
\* delivery is enabled exactly when a frame is pending, and time advancing
\* after a delivery overwrites the record of it).
LiveSpec ==
    /\ Init
    /\ [][LiveNext]_vars
    /\ WF_vars(UNCHANGED calls /\ Tick)
    /\ \A e \in Elems : <>[]FramePending(e) => []<>FrameDelivered(e)

\* The program on a scheduler that takes callbacks for the running frame
\* before it calls them.
RaceNext ==
    \/ Spend /\ \E o \in observing :
          \E entries \in EntryBatches(o.previous) : Notify(o, entries)
    \/ Spend /\ Replay
    \/ Spend /\ Restart
    \/ Spend /\ \E options \in Partials : UpdateOptions(options)
    \/ Spend /\ Destroy
    \/ UNCHANGED calls /\ \E c \in frameCallbacks : Take(c)
    \/ UNCHANGED calls /\ \E c \in delivering : Deliver(c)
    \/ UNCHANGED calls /\ Tick

RaceSpec == Init /\ [][RaceNext]_vars

\* ------------------------------------------------------------------ claims

\* The requested callbacks of element e, taken for a frame or not.
Requests(e) == {c \in frameCallbacks \cup delivering : c.element = e}

\* C1: in every reachable state each element has at most one requested
\* callback, an entry of this.animations names a requested callback of its
\* element and every requested callback is named by this.animations; and after
\* a replay() over elements that had a running session, each of them has
\* exactly one session, the new one (no frame of it delivered yet).
C1_OneSessionPerTarget ==
    /\ \A e \in Elems : Cardinality(Requests(e)) <= 1
    /\ \A e \in Elems : animations[e] # NoAnim =>
          \E c \in frameCallbacks : c.element = e /\ c.id = animations[e]
    /\ \A c \in frameCallbacks : animations[c.element] = c.id
    /\ last.op = "replay" =>
          \A e \in last.arg : dataset[e].set =>
             /\ Cardinality(Requests(e)) = 1
             /\ \A c \in Requests(e) : c.elapsed = NullTime

\* C1 witness: replay() has just started a session for an element that had a
\* running one.
C1_Witness ==
    /\ last.op = "replay"
    /\ \E e \in last.arg : \E c \in frameCallbacks :
          c.element = e /\ c.elapsed = NullTime /\ animations[e] = c.id

\* C2: a callback whose session is no longer the live one of its element (the
\* session was cancelled or superseded after the scheduler took the callback)
\* writes no text and requests no frame when it is called.
C2_NoStaleRender ==
    [][\A c \in delivering :
          (animations[c.element] # c.id /\ Deliver(c)) =>
             /\ innerText' = innerText
             /\ frameCallbacks' = frameCallbacks]_vars

\* The elements of this.elements.
Listed == {elements[i] : i \in DOMAIN elements}

\* Element e has parsed data and displays its formatted target.
Shown(e) ==
    /\ dataset[e].set
    /\ innerText[e] = formatNumber(dataset[e].number, dataset[e].decimals,
                                   dataset[e].hasCommas, settings)

\* The last operation was a notification in which element e left the viewport
\* while its recorded state was visible.
ExitHandled(e) == last.op = "notify" /\ last.el = e /\ last.exit

\* The last operation was restart(), updateOptions() or destroy().
Reinitialised == last.op \in {"restart", "updateOptions", "destroy"}

\* C3 as stated, for the elements that have parsed data: after replay(), under
\* fair frame delivery with advancing timestamps, the element eventually
\* displays its formatted target unless restart(), updateOptions() or
\* destroy() is called.
C3_ReplayReachesTarget ==
    \A e \in Elems :
        (last.op = "replay" /\ e \in Listed /\ dataset[e].set)
            ~> (Shown(e) \/ Reinitialised)

\* C3 amended: after replay(), under fair frame delivery with advancing
\* timestamps and finitely many further calls, every element that has parsed
\* data eventually displays its formatted target, unless restart(),
\* updateOptions() or destroy() is called or the element leaves the viewport
\* while its recorded state is visible.
C3_ReplayReachesTargetUnlessExit ==
    \A e \in Elems :
        (last.op = "replay" /\ e \in Listed /\ dataset[e].set)
            ~> (Shown(e) \/ Reinitialised \/ ExitHandled(e))

\* C3 witness: the final frame of a session has been delivered for an element
\* that was not visible, so that only replay() can have started the session.
C3_Witness ==
    /\ last.op = "step" /\ last.arg
    /\ elementState[last.el] = "false"
    /\ Shown(last.el)

\* C4: after a frame delivered with progress 1, the element displays the
\* format of its exact parsed target, this.animations has no entry for it, no
\* frame is requested for it, and an element registered from "1,500" under the
\* default settings displays "1,500".
C4_FinalFrameShowsTarget ==
    (last.op = "step" /\ last.arg) =>
        /\ Shown(last.el)
        /\ animations[last.el] = NoAnim
        /\ Requests(last.el) = {}
        /\ (dataset[last.el].value = T1500 /\ settings = defaults)
              => innerText[last.el] = T1500

\* C4 witness: the final frame of an element registered from "1,500" under the
\* default settings has been delivered.
C4_Witness ==
    /\ last.op = "step" /\ last.arg
    /\ dataset[last.el].value = T1500
    /\ settings = defaults
    /\ innerText[last.el] = T1500

\* The subscriptions of element e.
Subscriptions(e) == {o \in observing : o.target = e}

\* Element e has exactly one session, of which no frame has been delivered.
FreshSession(e) ==
    /\ Cardinality(Requests(e)) = 1
    /\ \A c \in Requests(e) :
          /\ c.elapsed = NullTime
          /\ c.id = animations[e]
          /\ c.targetValue = dataset[e].number

\* The last operation delivered the first frame of element e's session.
FirstFrame(e) ==
    /\ last.op = "step" /\ last.el = e
    /\ \E c \in Requests(e) : c.elapsed = 0

\* C5: with once = false, after a notification that ends with the element
\* leaving the viewport while recorded visible, the element has no session and
\* no requested frame, displays "0" and keeps its subscription; after a
\* notification that ends with the element entering the viewport it has a
\* fresh session, whose first frame displays the format of zero.
C5_ExitZeroesAndKeepsSubscription ==
    /\ (last.op = "notify" /\ ~settings.once /\ last.exit
            /\ ~last.arg[Len(last.arg)]) =>
          /\ animations[last.el] = NoAnim
          /\ Requests(last.el) = {}
          /\ innerText[last.el] = <<"0">>
          /\ Cardinality(Subscriptions(last.el)) = 1
          /\ \A o \in Subscriptions(last.el) :
                \E i \in DOMAIN observers : observers[i] = o.id
    /\ (last.op = "notify" /\ ~settings.once /\ last.arg[Len(last.arg)]) =>
          FreshSession(last.el)
    /\ (last.op = "step" /\ ~settings.once /\ FirstFrame(last.el)) =>
          \A c \in Requests(last.el) :
             innerText[last.el] =
                formatNumber(RInt(0), c.decimals, c.hasComma, settings)

\* C5 witness: with once = false a visible element with a running session has
\* left the viewport.
C5_Witness ==
    /\ last.op = "notify" /\ last.arg = <<FALSE>> /\ last.exit
    /\ ~settings.once
    /\ innerText[last.el] = <<"0">>
    /\ Cardinality(Subscriptions(last.el)) = 1

\* C6: with once = true, after the notification in which the element first
\* enters the viewport the element has no subscription and the session that
\* entry started is running.
C6_OnceRunsToCompletion ==
    (last.op = "notify" /\ settings.once
        /\ \E i \in DOMAIN last.arg : last.arg[i]) =>
       /\ Subscriptions(last.el) = {}
       /\ animations[last.el] # NoAnim
       /\ Cardinality(Requests(last.el)) = 1

\* Nothing of the instance is left: no session, no requested frame, no
\* subscription, no element.
Destroyed ==
    /\ elements = <<>>
    /\ observers = <<>>
    /\ observing = {}
    /\ frameCallbacks = {}
    /\ delivering = {}
    /\ \A e \in Elems : animations[e] = NoAnim

\* C7: once destroy() has emptied the element list nothing of the instance is
\* left, and no later call (destroy(), replay(), restart(), updateOptions())
\* starts a session, creates a subscription or writes a text.
C7_DestroyIsFinal ==
    /\ [](elements = <<>> => Destroyed)
    /\ [][elements = <<>> =>
            /\ Destroyed'
            /\ innerText' = innerText
            /\ dataset' = dataset
            /\ elementState' = elementState]_vars

\* C7 witness: replay() has been called on a destroyed instance.
C7_Witness == elements = <<>> /\ last.op = "replay" /\ Destroyed

\* The state s shows what the instance shows: texts, visibility states,
\* sessions, requested frames and subscriptions.
SameAs(s) ==
    /\ innerText = s.innerText
    /\ elementState = s.elementState
    /\ animations = s.animations
    /\ frameCallbacks = s.frameCallbacks
    /\ observing = s.observing
    /\ observers = s.observers
    /\ elements = s.elements

\* C8: after restart() on an instance that has elements, the texts, the
\* visibility states, the sessions and the subscriptions are those of a new
\* instance constructed over the page's original texts with the current
\* settings.
C8_RestartIsFreshConstruction ==
    (last.op = "restart" /\ elements # <<>>) =>
        SameAs(constructor(page, settings))

\* The data stored for element e is the parse of text under the settings.
DataIs(e, parsedData) ==
    /\ dataset[e].set = parsedData.ok
    /\ parsedData.ok =>
          /\ dataset[e].number = parsedData.number
          /\ dataset[e].decimals = parsedData.decimals
          /\ dataset[e].hasCommas = parsedData.hasComma

\* C9: after updateOptions() the stored number, decimal count and separator
\* flag of every element are the parse of its original text under the merged
\* settings.
C9_DataReparsedFromOriginal ==
    last.op = "updateOptions" =>
        \A e \in Listed : DataIs(e, parseValue(Trim(page[e]), settings))

\* Element e is registered with the parse parsedData of its text.
Registered(e, parsedData) ==
    /\ DataIs(e, parsedData)
    /\ elementState[e] = "false"
    /\ Cardinality(Subscriptions(e)) = 1
    /\ \A o \in Subscriptions(e) :
          \E i \in DOMAIN observers : observers[i] = o.id

\* Element e is skipped or registered, as the parse parsedData of its text
\* decides.
SkippedOrRegistered(e, parsedData) ==
    IF parsedData.ok THEN Registered(e, parsedData)
    ELSE Subscriptions(e) = {}

\* C10: after the constructor, restart() or updateOptions(), every element
\* whose trimmed text is empty or does not parse has no subscription, and
\* every other element, wherever it is in the list, has its parsed data, the
\* state not-visible and one subscription; when such an element enters the
\* viewport a session towards its parsed number starts.
C10_BadElementsSkippedOthersRegistered ==
    /\ last.op \in {"constructor", "restart", "updateOptions"} =>
          \A e \in Listed :
             SkippedOrRegistered(e, parseValue(Trim(innerText[e]), settings))
    /\ (last.op = "notify" /\ last.arg = <<TRUE>>) =>
          /\ dataset[last.el].set
          /\ \E c \in frameCallbacks :
                /\ c.element = last.el
                /\ c.id = animations[last.el]
                /\ c.targetValue = dataset[last.el].number

\* C10 witness: the first element of the list was skipped and the second one
\* is registered.
C10_Witness ==
    /\ last.op \in {"constructor", "restart", "updateOptions"}
    /\ elements = <<1, 2>>
    /\ ~parseValue(Trim(innerText[1]), settings).ok
    /\ Subscriptions(1) = {}
    /\ Registered(2, parseValue(Trim(innerText[2]), settings))

\* What the claims on repeated calls compare in a state s: the texts, the
\* visibility states, and for each element the number of connected observers
\* and of requested frames (handles and observer identities left out).
Observable(s) ==
    [innerText    |-> s.innerText,
     elementState |-> s.elementState,
     subscribed   |-> [e \in Elems |->
                          Cardinality({o \in s.observing : o.target = e})],
     running      |-> [e \in Elems |->
                          Cardinality({c \in s.frameCallbacks : c.element = e})],
     live         |-> {e \in Elems : s.animations[e] # NoAnim},
     elements     |-> s.elements]

\* C11: right after restart(), replay(), destroy() or updateOptions(p),
\* calling the same operation again (with the same p) leaves the texts, the
\* visibility states, the subscribed elements and the elements with a session
\* as they are, and updateOptions(p) leaves the settings as they are.
C11_RepeatedCallChangesNothing ==
    /\ last.op = "restart" => Observable(restart(Cur)) = Observable(Cur)
    /\ last.op = "replay" => Observable(replay(Cur)) = Observable(Cur)
    /\ last.op = "destroy" => Observable(destroy(Cur)) = Observable(Cur)
    /\ last.op = "updateOptions" =>
          /\ Observable(updateOptions(Cur, last.arg)) = Observable(Cur)
          /\ Merge(settings, last.arg) = settings

\* C11 witness: replay() has just run on an instance with a registered
\* element, which now has a session, and a second replay() would change
\* nothing of what is compared.
C11_Witness ==
    /\ last.op = "replay"
    /\ \E e \in Elems : animations[e] # NoAnim
    /\ Observable(replay(Cur)) = Observable(Cur)

\* The easing names tried: the eight keys of easingFunctions, the name
\* "linear" and a name that is no key.
EasingChoices == EasingNames \cup {"linear", "bounce"}

\* An instance over one parsable and one blank element, constructed with an
\* easing name.
EasingInit ==
    /\ \E name \in EasingChoices :
          Is(constructor(<<T1500, TBlank>>, [easing |-> name]))
    /\ page = <<T1500, TBlank>>
    /\ last = [op |-> "constructor", el |-> 0, arg |-> <<>>, exit |-> FALSE]
    /\ calls = MaxCalls

EasingSpec == EasingInit /\ [][LiveNext]_vars

\* The curve a name stands for when linearName is the name of the curve t.
CurveOf(linearName, name, t) ==
    CASE name = linearName        -> t
      [] name = "easeInQuad"      -> easeInQuad(t)
      [] name = "easeOutQuad"     -> easeOutQuad(t)
      [] name = "easeInOutQuad"   -> easeInOutQuad(t)
      [] name = "easeInCubic"     -> easeInCubic(t)
      [] name = "easeOutCubic"    -> easeOutCubic(t)
      [] name = "easeInOutCubic"  -> easeInOutCubic(t)
      [] OTHER                    -> easeOutExpo(t)

\* After a frame with progress below 1 the element shows the curve of the
\* session's easing name applied to the progress, times the target; after the
\* frame with progress 1 it shows the target.
RendersCurve(linearName) ==
    /\ (last.op = "step" /\ ~last.arg) =>
          \A c \in Requests(last.el) :
             innerText[last.el] =
                formatNumber(
                   RMul(CurveOf(linearName, c.easing,
                                Progress(c.elapsed, c.duration)),
                        c.targetValue),
                   c.decimals, c.hasComma, settings)
    /\ (last.op = "step" /\ last.arg) => Shown(last.el)

\* C12 as stated: the name "linear" selects the curve t, the other seven
\* names their curves, every other name easeOutExpo, and every session ends
\* with its target displayed.
C12_EasingByName == RendersCurve("linear")

\* C12 amended: the name "easeLinear" selects the curve t, the other seven
\* names their curves, every other name ("linear" among them) easeOutExpo,
\* and every session ends with its target displayed.
C12_EasingByKey == RendersCurve("easeLinear")

\* C12 witness: a session with the name "linear" has rendered easeOutExpo at
\* half of its duration, which is not the half of the target.
C12_Witness ==
    /\ last.op = "step" /\ ~last.arg
    /\ settings.easing = "linear"
    /\ \E c \in Requests(last.el) :
          /\ c.easing = "linear"
          /\ c.elapsed > 0
          /\ innerText[last.el] =
                formatNumber(RMul(easeOutExpo(Progress(c.elapsed, c.duration)),
                                  c.targetValue),
                             c.decimals, c.hasComma, settings)
          /\ innerText[last.el] #
                formatNumber(RMul(Progress(c.elapsed, c.duration),
                                  c.targetValue),
                             c.decimals, c.hasComma, settings)

\* ----------------------------------------------- parseValue and formatNumber

\* The parts the decorated texts are put together from.
PrefixParts == {<<>>, <<"$">>}
SignParts == {<<>>, <<"-">>}
IntegerParts ==
    {<<>>, <<"0">>, <<"5">>, <<"2", "5", "0", "0">>,
     <<"1", ",", "5", "0", "0">>, <<"5", ",", "0", "0", "0">>}
FractionParts == {<<>>, <<".", "5", "0">>, <<".", "2", "5">>}
ExponentParts == {<<>>, <<"e", "1">>}
SuffixParts == {<<>>, <<"+">>}

DecoratedTexts ==
    {p \o s \o i \o f \o e \o x :
        p \in PrefixParts, s \in SignParts, i \in IntegerParts,
        f \in FractionParts, e \in ExponentParts, x \in SuffixParts}

\* The settings the texts are parsed and formatted under.
TextSettings ==
    {defaults,
     Merge(defaults, [prefix |-> <<"$">>, suffix |-> <<"+">>]),
     Merge(defaults, [decimals |-> 1]),
     Merge(defaults, [decimals |-> 0, prefix |-> <<"$">>])}

\* One element holding a decorated text, nothing registered.
TextInit ==
    /\ \E x \in DecoratedTexts, st \in TextSettings :
          /\ settings = st
          /\ innerText = <<x, <<>>>>
          /\ page = <<x, <<>>>>
    /\ elements = <<1>>
    /\ observers = <<>>
    /\ animations = [e \in Elems |-> NoAnim]
    /\ elementState = [e \in Elems |-> "undefined"]
    /\ dataset = [e \in Elems |-> NoData]
    /\ observing = {}
    /\ frameCallbacks = {}
    /\ delivering = {}
    /\ last = [op |-> "text", el |-> 1, arg |-> <<>>, exit |-> FALSE]
    /\ calls = MaxCalls

\* What init stores of a parse of text.
Stored(text, parsedData) ==
    IF parsedData.ok
    THEN [set |-> TRUE, value |-> text, number |-> parsedData.number,
          decimals |-> parsedData.decimals, hasCommas |-> parsedData.hasComma]
    ELSE NoData

\* The element's text is parsed and the result stored, as init does.
ParseText ==
    /\ last.op \in {"text", "format"}
    /\ dataset' = [dataset EXCEPT
                      ![1] = Stored(innerText[1],
                                    parseValue(innerText[1], settings))]
    /\ last' = [op |-> "parse", el |-> 1, arg |-> <<>>, exit |-> FALSE]
    /\ UNCHANGED <<settings, elements, observers, animations, elementState,
                   innerText, observing, frameCallbacks, delivering, page,
                   calls>>

\* The stored number is formatted into the element, as the last frame does.
FormatData ==
    /\ last.op = "parse"
    /\ dataset[1].set
    /\ innerText' = [innerText EXCEPT
                        ![1] = formatNumber(dataset[1].number,
                                            dataset[1].decimals,
                                            dataset[1].hasCommas, settings)]
    /\ last' = [op |-> "format", el |-> 1, arg |-> <<>>, exit |-> FALSE]
    /\ UNCHANGED <<settings, elements, observers, animations, elementState,
                   dataset, observing, frameCallbacks, delivering, page, calls>>

TextNext == ParseText \/ FormatData

TextSpec == TextInit /\ [][TextNext]_vars

\* The rational x rounded to f decimals, halves away from zero.
RoundTo(x, f) ==
    Rat((IF x.n < 0 THEN -1 ELSE 1)
           * ((2 * Abs(x.n) * Pow(10, f) + x.d) \div (2 * x.d)),
        Pow(10, f))

\* The text parses to the number.
ParsesTo(parsedData, number) == parsedData.ok /\ parsedData.number = number

\* C13: the format of the parse of an accepted text parses again, under the
\* same settings, to the parsed number rounded to the stored decimals; and
\* the formats of "1,500" and "2500.50" under the defaults and of "$5,000+"
\* under prefix "$" and suffix "+" are these texts.
C13_FormatOfParseRoundTrips ==
    last.op = "format" =>
        /\ ParsesTo(parseValue(innerText[1], settings),
                    RoundTo(dataset[1].number, dataset[1].decimals))
        /\ (settings = defaults /\ dataset[1].value \in {T1500, T2500})
              => innerText[1] = dataset[1].value
        /\ (settings.prefix = <<"$">> /\ settings.suffix = <<"+">>
               /\ dataset[1].value = T5000)
              => innerText[1] = T5000

\* C13 witness: "$5,000+" has been parsed and formatted under prefix "$" and
\* suffix "+".
C13_Witness ==
    /\ last.op = "format"
    /\ settings.prefix = <<"$">> /\ settings.suffix = <<"+">>
    /\ dataset[1].value = T5000
    /\ dataset[1].number = RInt(5000)
    /\ innerText[1] = T5000

\* -------------------------------------------- a detector that repeats itself

\* The entries of a detector that may report the same visibility twice.
AnyEntries == UNION {[1..n -> BOOLEAN] : n \in 1..MaxEntries}

\* The program with a visibility detector that may repeat a report.
RepeatNext ==
    \/ Spend /\ \E o \in observing : \E entries \in AnyEntries : Report(o, entries)
    \/ Spend /\ Replay
    \/ Spend /\ Restart
    \/ Spend /\ \E options \in Partials : UpdateOptions(options)
    \/ Spend /\ Destroy
    \/ UNCHANGED calls /\ \E c \in frameCallbacks : Frame(c)
    \/ UNCHANGED calls /\ Tick

RepeatSpec == Init /\ [][RepeatNext]_vars

\* C14: a callback with one visible entry for an element recorded visible
\* leaves the sessions and the requested frames as they are, and a callback
\* with one not-visible entry for an element not recorded visible leaves the
\* sessions, the requested frames and the texts as they are.
C14_StartOnlyOnTransition ==
    [][\A o \in observing :
          /\ (elementState[o.target] = "true" /\ Report(o, <<TRUE>>)) =>
                /\ frameCallbacks' = frameCallbacks
                /\ animations' = animations
          /\ (elementState[o.target] # "true" /\ Report(o, <<FALSE>>)) =>
                /\ frameCallbacks' = frameCallbacks
                /\ animations' = animations
                /\ innerText' = innerText]_vars

\* The time step reads for the callback c: 0 at the session's first frame.
ElapsedAt(c) == IF c.elapsed = NullTime THEN 0 ELSE c.elapsed

\* The requested frames of element e after the step.
RequestsAfter(e) == {c \in frameCallbacks' : c.element = e}

\* What the delivery of the callback c leaves behind: the rendering of zero
\* after a session's first frame, one requested frame carrying the frame's
\* time after a frame with progress below 1, none after the frame with
\* progress 1.
FrameOutcome(c, progress) ==
    /\ c.elapsed = NullTime =>
          /\ progress = RInt(0)
          /\ innerText'[c.element] =
                formatNumber(RInt(0), c.decimals, c.hasComma, settings)
    /\ RLess(progress, ROne) =>
          /\ Cardinality(RequestsAfter(c.element)) = 1
          /\ \A c2 \in RequestsAfter(c.element) :
                /\ c2.elapsed = ElapsedAt(c)
                /\ c2.targetValue = c.targetValue
                /\ animations'[c.element] = c2.id
    /\ ~RLess(progress, ROne) =>
          /\ progress = ROne
          /\ RequestsAfter(c.element) = {}
          /\ animations'[c.element] = NoAnim

\* C15: the first frame of a session has progress 0 however late it comes,
\* the time of a started session never goes back and never exceeds the
\* duration, each frame with progress below 1 leaves exactly one requested
\* frame and the frame with progress 1 leaves none.
C15_ProgressMonotoneOneRequest ==
    /\ [](\A c \in frameCallbacks :
             c.elapsed = NullTime \/ (0 <= c.elapsed /\ c.elapsed <= c.duration))
    /\ [][/\ \A c \in frameCallbacks :
                Frame(c) => FrameOutcome(c, Progress(ElapsedAt(c), c.duration))
          /\ \A c \in frameCallbacks : \A c2 \in RequestsAfter(c.element) :
                c2.elapsed # NullTime => c2.elapsed >= c.elapsed]_vars

\* C15 witness: a frame was delivered to a started session after time had
\* passed, with progress still below 1, and one frame is requested.
C15_Witness ==
    /\ last.op = "step" /\ ~last.arg
    /\ \E c \in frameCallbacks :
          /\ c.element = last.el
          /\ c.elapsed > 0 /\ c.elapsed < c.duration
          /\ Cardinality(Requests(last.el)) = 1

\* What the instance holds of element e in the state s: its text, visibility
\* state, stored data, session, requested frames and observers.
Of(s, e) ==
    [innerText    |-> s.innerText[e],
     elementState |-> s.elementState[e],
     dataset      |-> s.dataset[e],
     animation    |-> s.animations[e],
     requests     |-> {c \in s.frameCallbacks : c.element = e},
     observing    |-> {o \in s.observing : o.target = e},
     observers    |-> {i \in DOMAIN s.observers :
                         \E o \in s.observing :
                            o.target = e /\ o.id = s.observers[i]} # {}]

\* The state t holds of every element but e what the current state holds.
OthersUntouched(t, e) == \A b \in Elems \ {e} : Of(t, b) = Of(Cur, b)

\* C16: a frame delivered to an element and a callback of an element's
\* observer leave everything the instance holds of the other elements as it
\* is, and two such events for different elements lead to the same state in
\* either order.
C16_TargetsIndependent ==
    /\ \A c \in frameCallbacks : OthersUntouched(FrameOn(Cur, c), c.element)
    /\ \A o \in observing : \A entries \in EntryBatches(o.previous) :
          OthersUntouched(ReportOn(Cur, o, entries), o.target)
    /\ \A c1, c2 \in frameCallbacks :
          c1.element # c2.element =>
             FrameOn(FrameOn(Cur, c1), c2) = FrameOn(FrameOn(Cur, c2), c1)
    /\ \A o1, o2 \in observing :
          o1.target # o2.target =>
             \A e1 \in EntryBatches(o1.previous),
                e2 \in EntryBatches(o2.previous) :
                ReportOn(ReportOn(Cur, o1, e1), o2, e2)
                   = ReportOn(ReportOn(Cur, o2, e2), o1, e1)
    /\ \A c \in frameCallbacks : \A o \in observing :
          c.element # o.target =>
             \A entries \in EntryBatches(o.previous) :
                ReportOn(FrameOn(Cur, c), o, entries)
                   = FrameOn(ReportOn(Cur, o, entries), c)

\* C16 witness: a frame has been delivered to one element while another
\* element has a requested frame, and the frame of the other and a callback
\* of the one's observer both change the state.
C16_Witness ==
    /\ last.op = "step"
    /\ \E c \in frameCallbacks : \E o \in observing :
          /\ o.target = last.el
          /\ c.element # last.el
          /\ FrameOn(Cur, c) # Cur
          /\ \E entries \in EntryBatches(o.previous) :
                /\ ReportOn(Cur, o, entries).animations # animations
                /\ ReportOn(FrameOn(Cur, c), o, entries)
                      = FrameOn(ReportOn(Cur, o, entries), c)

\* C17: with once = false, after a callback that ends with the element
\* leaving the viewport while recorded visible, the element shows the format
\* of 0 with no decimals under the current settings: prefix, "0", suffix.
C17_BaselineIsFormattedZero ==
    (last.op = "notify" /\ ~settings.once /\ last.exit
        /\ ~last.arg[Len(last.arg)]) =>
       /\ innerText[last.el] = formatNumber(RInt(0), 0, FALSE, settings)
       /\ innerText[last.el] = settings.prefix \o <<"0">> \o settings.suffix

\* Element e was skipped at the most recent registration: init records a
\* visibility state for the elements it registers and for no other.
Skipped(e) == e \in Listed /\ elementState[e] = "undefined"

\* C18: an element skipped at the most recent registration has no
\* subscription, no session and no requested frame, and shows its original
\* text.
C18_SkippedElementInert ==
    \A e \in Elems :
        Skipped(e) =>
           /\ Subscriptions(e) = {}
           /\ animations[e] = NoAnim
           /\ Requests(e) = {}
           /\ innerText[e] = page[e]

\* ------------------------------------------------ an instance never replayed

\* The program when replay() is not called.
NoReplayNext ==
    \/ UNCHANGED calls /\ \E o \in observing :
          \E entries \in EntryBatches(o.previous) : Notify(o, entries)
    \/ UNCHANGED calls /\ Restart
    \/ UNCHANGED calls /\ \E options \in Partials : UpdateOptions(options)
    \/ UNCHANGED calls /\ Destroy
    \/ UNCHANGED calls /\ \E c \in frameCallbacks : Frame(c)
    \/ UNCHANGED calls /\ Tick

NoReplaySpec == Init /\ [][NoReplayNext]_vars

\* The observers whose element has not entered the viewport since it was
\* registered.
UnseenObservers == {o \in observing : o.previous \in {"none", "unseen"}}

\* C19: while replay() is not called, an element that has not entered the
\* viewport since its registration is recorded not visible, shows its
\* original text and has no session and no requested frame, whatever
\* not-visible entries its observer has reported.
C19_UnseenKeepsOriginalText ==
    \A o \in UnseenObservers :
        /\ elementState[o.target] = "false"
        /\ innerText[o.target] = page[o.target]
        /\ innerText[o.target] = dataset[o.target].value
        /\ animations[o.target] = NoAnim
        /\ Requests(o.target) = {}

\* C19 witness: the observer of a registered element has reported that the
\* element is not visible, and the element has not entered the viewport.
C19_Witness ==
    /\ last.op = "notify" /\ last.arg = <<FALSE>>
    /\ \E o \in observing :
          /\ o.target = last.el
          /\ o.previous = "unseen"
          /\ innerText[o.target] = page[o.target]

\* The observers this.observers lists.
ListedObservers == {observers[i] : i \in DOMAIN observers}

\* C20: every element has at most one connected observer, this.observers
\* lists each connected observer once and no other, and replay() leaves the
\* connected observers and the list as they are.
C20_ObserversListIsLive ==
    /\ [](/\ \A e \in Elems : Cardinality(Subscriptions(e)) <= 1
          /\ ListedObservers = {o.id : o \in observing}
          /\ Cardinality(ListedObservers) = Len(observers)
          /\ Cardinality(observing) = Len(observers))
    /\ [][Replay => (observing' = observing /\ observers' = observers)]_vars

\* C20 witness: replay() has run on an instance on which once = true has
\* disconnected the observer of one element and another element is still
\* observed.
C20_Witness ==
    /\ last.op = "replay"
    /\ \E e1, e2 \in Elems :
          /\ dataset[e1].set /\ elementState[e1] # "undefined"
          /\ Subscriptions(e1) = {}
          /\ animations[e1] # NoAnim
          /\ Cardinality(Subscriptions(e2)) = 1
          /\ Len(observers) = 1

====
